---------------------------- MODULE Spec2Model ----------------------------
(***************************************************************************)
(* State-machine model of the ingestion pipeline of TTS-1M-Scraping.       *)
(*                                                                         *)
(* Three ingestion variants live in the repository and are modelled side   *)
(* by side; `variant' selects which one a run executes:                    *)
(*   "yme"   src/YouTubeMetadataExtractor.py  (class, process_urls)        *)
(*   "vdata" src/vdata.py                     (process_url, handle_errors) *)
(*   "old"   src/test/vdata_old.py            (process_urls)               *)
(*                                                                         *)
(* The remote API is the environment: every request.execute() takes one of *)
(* the outcomes                                                            *)
(*   "ok"     a response,                                                  *)
(*   "quota"  HttpError 403 with reason quotaExceeded,                     *)
(*   "http"   any other HttpError,                                         *)
(*   "exc"    execute() raises an exception that is not an HttpError (a    *)
(*            network error),                                              *)
(*   "bad"    a response arrives, and processing its items raises (a       *)
(*            missing field) after k of them were processed.               *)
(* googleapiclient's build() is taken not to fail in "yme" (the code has   *)
(* no handler around it); in "vdata" and "old", whose build_youtube_service*)
(* handles a failing build, it may fail.                                   *)
(***************************************************************************)
EXTENDS Integers, Sequences, FiniteSets, TLC

VARIABLES
    variant,    \* which script runs
    N,          \* len(api_keys) / len(API_KEYS)
    cursor,     \* current_key_index
    session,    \* index of the key the `youtube' service object is bound to
    urls,       \* URLs of the input list not yet processed
    pc,         \* position of the run
    plist,      \* playlist / channel id of the running traversal
    tok,        \* next_page_token (0 = None, p = token of page p+1)
    video_ids,  \* identifiers collected by the running traversal
    retries,    \* `retries' of fetch_videos_from_playlist / get_video_metadata
    all_ids,    \* all_video_ids (yme), video_ids handed to the fetch (vdata, old)
    existing,   \* known-ID index as the run last read it
    bi,         \* offset i of the running batch
    out,        \* metadata (yme), video_data (vdata, old)
    acc,        \* all_video_data (old)
    dirExists,  \* the directory "metadata" exists (vdata, old)
    files,      \* durable store: the rows (Video IDs) of each store file
    log,        \* history: API calls, rotations, sleeps, builds, in order
    faults,     \* failures injected so far
    layout,     \* which store is exercised: "file" (metadata.csv), "dir" (metadata/)
    csv,        \* metadata_file of YouTubeMetadataExtractor
    final,      \* final_file of YouTubeMetadataExtractor
    appended,   \* the rows handed to save_metadata_to_csv so far, in order
    meta,       \* the files of the directory "metadata"
    temp,       \* the files of the directory "deduplication"
    archive,    \* the files moved to the directory "archive"
    df,         \* the DataFrame of the running deduplication.main
    dpc,        \* position of deduplication.main
    nw,         \* writes to the store so far
    np,         \* runs of deduplication.main started so far
    raised,     \* a store operation has raised an exception
    given,      \* the argument a function is applied to
    fn,         \* the function that has been applied to it
    ret         \* what the function returned

\* the state of a run of an ingestion script
run == <<variant, N, cursor, session, urls, pc, plist, tok, video_ids, retries,
         all_ids, existing, bi, out, acc, dirExists, files, log, faults>>

\* the state of the durable store, line by line
disk == <<layout, csv, final, appended, meta, temp, archive, df, dpc, nw, np, raised>>

\* a function of the scripts on its own: argument, function, result
pure == <<given, fn, ret>>

vars == <<run, disk, pure>>

-----------------------------------------------------------------------------
(* Bounds of the model *)

MaxKeys == 3
MaxFaults == 3
MaxPages == 2
MaxPartial == 1
MaxPerm == 2
MaxRows == 2
MaxWrites == 2
MaxPasses == 2

(* Program constants *)

batch_size == 50
retry_budget == 3
max_results == 50

-----------------------------------------------------------------------------
(* Sequence helpers *)

Min(a, b) == IF a < b THEN a ELSE b

Range(s) == {s[i] : i \in 1..Len(s)}

\* Python slice s[i:j] with 0-based i, j
Slice(s, i, j) == SubSeq(s, i + 1, Min(j, Len(s)))

\* ascending enumeration of a finite set of integers
SeqOfSet(S) ==
    [i \in 1..Cardinality(S) |-> CHOOSE x \in S : Cardinality({y \in S : y < x}) = i - 1]

Reverse(s) == [i \in 1..Len(s) |-> s[Len(s) + 1 - i]]

\* every ordering of a set
Perms(S) ==
    {p \in [1..Cardinality(S) -> S] : \A i, j \in 1..Cardinality(S) : p[i] = p[j] => i = j}

-----------------------------------------------------------------------------
(* The environment: what the server holds *)

\* pages of a playlist, in server order; every listing has a last page; a
\* playlist may hold a video more than once ("PLa", "PLbig")
ServerPages(pid) ==
    CASE pid = "PLa"   -> [p \in 1..MaxPages |-> <<p, p + 1>>]
      [] pid = "PLb"   -> << <<3>> >>
      [] pid = "UUc"   -> << <<1>>, <<4>> >>
      [] pid = "UCc"   -> << <<1>>, <<4>> >>
      [] pid = "PLbig" -> << [i \in 1..max_results |-> i], <<max_results + 1, 1>> >>
      [] OTHER         -> << <<>> >>

\* the uploads playlist of a channel ("" when channels().list has no item)
ServerUploads(cid) == IF cid = "UCc" THEN "UUc" ELSE ""

\* the first channel a search for a handle finds ("" when there is none)
ServerHandle(h) == IF h = "hc" THEN "UCc" ELSE ""

Url(form, id, vid) == [form |-> form, id |-> id, vid |-> vid]

UrlLists ==
    { << Url("playlist", "PLa", 0) >>,
      << Url("watch", "", 2), Url("playlist", "PLa", 0) >>,
      << Url("channel", "UCc", 0), Url("playlist", "PLb", 0) >>,
      << Url("playlist", "PLbig", 0) >>,
      << Url("junk", "", 0), Url("handle", "h0", 0), Url("handle", "hc", 0),
         Url("shorts", "", 3), Url("youtu.be", "", 1) >> }

\* the store files found at the start of a run
InitFiles == { <<>>, << <<1>> >>, << <<2, 3>> >> }

-----------------------------------------------------------------------------
(* History entries *)

Call(kind, target, arg, key, res) ==
    [ev |-> "call", kind |-> kind, target |-> target, arg |-> arg, key |-> key, res |-> res]

Rot(from, to, res) ==
    [ev |-> "rotate", kind |-> "", target |-> "", arg |-> <<from, to>>, key |-> to, res |-> res]

\* a listing function hands its result to its caller: res is "list" or "None"
Ret(target, ids, res) ==
    [ev |-> "return", kind |-> "", target |-> target, arg |-> ids, key |-> 0, res |-> res]

\* build_youtube_service tried to build a service with the key `key'
Bld(key, res) ==
    [ev |-> "build", kind |-> "", target |-> "", arg |-> <<>>, key |-> key, res |-> res]

Sleep(secs) ==
    [ev |-> "sleep", kind |-> "", target |-> "", arg |-> <<secs>>, key |-> 0, res |-> "ok"]

\* the driver takes the URL u from the input list and classifies it as `type'
Begin(u, type) ==
    [ev |-> "url", kind |-> u.form, target |-> u.id, arg |-> <<u.vid>>, key |-> 0, res |-> type]

\* save_to_csv wrote the store file number idx: res is "new" or "overwrite"
Saved(idx, res) ==
    [ev |-> "save", kind |-> "", target |-> "", arg |-> <<idx>>, key |-> 0, res |-> res]

Outcomes == {"ok", "quota", "http", "exc", "bad"}

\* a failure may be injected while the budget lasts
MayFail(o) == o = "ok" \/ faults < MaxFaults

Fault(o) == IF o = "ok" THEN 0 ELSE 1

-----------------------------------------------------------------------------
(* URL classification, per variant, over the URL forms of the input list *)

Ref(type, id, vid) == [type |-> type, id |-> id, vid |-> vid]

NoRef == Ref("none", "", 0)

\* (mutant) a classifier that takes every string left over for a playlist
parse_url_never_none(u) ==
    CASE u.form \in {"watch", "youtu.be"} -> Ref("video", "", u.vid)
      [] u.form \in {"channel", "handle"} -> Ref("channel", u.id, 0)
      [] OTHER                            -> Ref("playlist", u.id, 0)

\* YouTubeMetadataExtractor.parse_url and its three helpers
parse_url(u) ==
    CASE u.form \in {"watch", "youtu.be"} -> Ref("video", "", u.vid)
      [] u.form = "playlist"              -> Ref("playlist", u.id, 0)
      [] u.form \in {"channel", "handle"} -> Ref("channel", u.id, 0)
      [] OTHER                            -> NoRef

\* vdata.extract_identifier
extract_identifier(u) ==
    CASE u.form = "playlist" -> Ref("playlist", u.id, 0)
      [] u.form = "watch"    -> Ref("video", "", u.vid)
      [] u.form = "channel"  -> Ref("channel_id", u.id, 0)
      [] u.form = "handle"   -> Ref("handle", u.id, 0)
      [] OTHER               -> NoRef

\* vdata_old.extract_identifier
extract_identifier_old(u) ==
    CASE u.form = "playlist"                       -> Ref("playlist", u.id, 0)
      [] u.form \in {"watch", "youtu.be", "shorts"} -> Ref("video", "", u.vid)
      [] u.form = "channel"                        -> Ref("channel_id", u.id, 0)
      [] u.form = "handle"                         -> Ref("handle", u.id, 0)
      [] OTHER                                     -> NoRef

-----------------------------------------------------------------------------
(* Credential rotation *)

\* (mutant) the increment without the modulo
next_index_unbounded(i, n) == i + 1

\* current_key_index = (current_key_index + 1) % len(api_keys)
next_index(i, n) == (i + 1) % n

\* (mutant) switch_api_key without its exit on the wrap
wrap_never_fatal(i) == FALSE

\* YouTubeMetadataExtractor.switch_api_key and vdata_old.switch_api_key:
\* the wrap to index 0 ends the run
wrap_is_fatal(i) == i = 0

\* (mutant) a service that is always built with the first key of the pool
create_service_first_key(i) == 0

\* create_youtube_service / build_youtube_service: the service is built with
\* api_keys[current_key_index]; a session is named by the index of its key
create_youtube_service(i) == i

\* the identifiers of a store file / of the store files
KnownIds(fs) == UNION {Range(fs[i]) : i \in 1..Len(fs)}

\* process_urls, Step 2: set(all_video_ids) - existing_video_ids
unseen(ids, known) == Range(ids) \ known

\* the orders list(set(...)) may produce
Orders(S) ==
    IF Cardinality(S) <= MaxPerm THEN Perms(S)
    ELSE {SeqOfSet(S), Reverse(SeqOfSet(S))}

\* the records videos().list returns for a batch: one per identifier
Records(batch) == batch

\* how many items of a response may be processed before a non-Http failure
Partials(items) == {k \in 0..MaxPartial : k = 0 \/ k < Len(items)}

-----------------------------------------------------------------------------
(* YouTubeMetadataExtractor.process_urls *)

\* get_existing_video_ids, then the loop over the URLs starts
YmeStart ==
    /\ variant = "yme" /\ pc = "start"
    /\ existing' = KnownIds(files)
    /\ all_ids' = <<>>
    /\ pc' = "url"
    /\ UNCHANGED <<disk, pure, variant, N, cursor, session, urls, plist, tok, video_ids, retries,
                   bi, out, acc, dirExists, files, log, faults>>

\* Step 1 of process_urls, one URL
YmeUrl ==
    /\ variant = "yme" /\ pc = "url" /\ urls # <<>>
    /\ LET r == parse_url(Head(urls))
       IN  /\ urls' = Tail(urls)
           /\ all_ids' = IF r.type = "video" /\ r.vid \notin existing
                         THEN Append(all_ids, r.vid) ELSE all_ids
           /\ pc' = CASE r.type = "playlist" -> "page"
                      [] r.type = "channel"  -> "chan"
                      [] OTHER               -> "url"
           /\ plist' = IF r.type \in {"playlist", "channel"} THEN r.id ELSE plist
           /\ tok' = 0
           /\ video_ids' = <<>>
           /\ retries' = 0
           /\ log' = Append(log, Begin(Head(urls), r.type))
    /\ UNCHANGED <<disk, pure, variant, N, cursor, session, existing, bi, out, acc, dirExists,
                   files, faults>>

\* fetch_videos_from_channel: the channels().list call and its handlers
YmeChan ==
    /\ variant = "yme" /\ pc = "chan"
    /\ \E o \in Outcomes :
        /\ MayFail(o)
        /\ faults' = faults + Fault(o)
        /\ LET c  == Call("chan", plist, <<>>, session, o)
               nx == next_index(cursor, N)
               up == ServerUploads(plist)
           IN  CASE o = "ok" ->
                      /\ log' = IF up = "" THEN log \o <<c, Ret(plist, <<>>, "list")>>
                                ELSE Append(log, c)
                      /\ pc' = IF up = "" THEN "url" ELSE "page"
                      /\ plist' = IF up = "" THEN plist ELSE up
                      /\ UNCHANGED <<cursor, session>>
                 [] o = "quota" ->
                      /\ cursor' = nx
                      /\ IF wrap_is_fatal(nx)
                         THEN /\ pc' = "exhausted"
                              /\ log' = log \o <<c, Rot(cursor, nx, "exhausted")>>
                              /\ UNCHANGED session
                         ELSE /\ pc' = "chan"
                              /\ log' = log \o <<c, Rot(cursor, nx, "ok")>>
                              /\ session' = create_youtube_service(nx)
                      /\ UNCHANGED plist
                 [] o = "http" ->
                      /\ log' = log \o <<c, Ret(plist, <<>>, "list")>>
                      /\ pc' = "url"
                      /\ UNCHANGED <<cursor, session, plist>>
                 [] OTHER ->
                      /\ log' = Append(log, c)
                      /\ pc' = "crashed"
                      /\ UNCHANGED <<cursor, session, plist>>
    /\ UNCHANGED <<disk, pure, variant, N, urls, tok, video_ids, retries, all_ids, existing, bi,
                   out, acc, dirExists, files>>

\* fetch_videos_from_playlist: one pass of the while loop (one playlistItems().list
\* call and its handlers); on return, process_urls extends all_video_ids
YmePage ==
    /\ variant = "yme" /\ pc = "page"
    /\ \E o \in Outcomes :
        /\ MayFail(o)
        /\ faults' = faults + Fault(o)
        /\ LET c     == Call("page", plist, <<tok>>, session, o)
               nx    == next_index(cursor, N)
               pages == ServerPages(plist)
               got   == video_ids \o pages[tok + 1]
           IN  CASE o = "ok" ->
                      /\ video_ids' = got
                      /\ IF tok + 1 < Len(pages)
                         THEN /\ tok' = tok + 1
                              /\ pc' = "page"
                              /\ log' = Append(log, c)
                              /\ UNCHANGED all_ids
                         ELSE /\ tok' = 0
                              /\ pc' = "url"
                              /\ log' = log \o <<c, Ret(plist, got, "list")>>
                              /\ all_ids' = all_ids \o got
                      /\ UNCHANGED <<cursor, session, retries>>
                 [] o = "quota" ->
                      /\ cursor' = nx
                      /\ IF wrap_is_fatal(nx)
                         THEN /\ pc' = "exhausted"
                              /\ log' = log \o <<c, Rot(cursor, nx, "exhausted")>>
                              /\ UNCHANGED <<session, retries>>
                         ELSE /\ session' = create_youtube_service(nx)
                              /\ retries' = retries + 1
                              /\ log' = log \o <<c, Rot(cursor, nx, "ok")>>
                              /\ pc' = IF retries + 1 > N THEN "exhausted_retries" ELSE "page"
                      /\ UNCHANGED <<tok, video_ids, all_ids>>
                 [] o = "http" ->
                      /\ log' = log \o <<c, Ret(plist, video_ids, "list")>>
                      /\ pc' = "url"
                      /\ all_ids' = all_ids \o video_ids
                      /\ UNCHANGED <<cursor, session, retries, tok, video_ids>>
                 [] OTHER ->
                      /\ log' = Append(log, c)
                      /\ pc' = "crashed"
                      /\ UNCHANGED <<cursor, session, retries, tok, video_ids, all_ids>>
    /\ UNCHANGED <<disk, pure, variant, N, urls, plist, existing, bi, out, acc, dirExists, files>>

\* Step 2 of process_urls: list(set(all_video_ids) - existing_video_ids)
YmeDedupIds ==
    /\ variant = "yme" /\ pc = "url" /\ urls = <<>>
    /\ all_ids' \in Orders(unseen(all_ids, existing))
    /\ bi' = 0
    /\ out' = <<>>
    /\ pc' = "batch"
    /\ UNCHANGED <<disk, pure, variant, N, cursor, session, urls, plist, tok, video_ids, retries,
                   existing, acc, dirExists, files, log, faults>>

\* Step 3 of process_urls, one batch: fetch_video_metadata_batch(batch_ids)
YmeBatch ==
    /\ variant = "yme" /\ pc = "batch" /\ bi < Len(all_ids)
    /\ \E o \in Outcomes :
        /\ MayFail(o)
        /\ faults' = faults + Fault(o)
        /\ LET batch == Slice(all_ids, bi, bi + batch_size)
               c     == Call("batch", "", batch, session, o)
               nx    == next_index(cursor, N)
           IN  CASE o = "ok" ->
                      /\ log' = Append(log, c)
                      /\ out' = out \o Records(batch)
                      /\ bi' = bi + batch_size
                      /\ pc' = "batch"
                      /\ UNCHANGED <<cursor, session>>
                 [] o = "quota" ->
                      /\ cursor' = nx
                      /\ IF wrap_is_fatal(nx)
                         THEN /\ pc' = "exhausted"
                              /\ log' = log \o <<c, Rot(cursor, nx, "exhausted")>>
                              /\ UNCHANGED <<session, bi>>
                         ELSE /\ session' = create_youtube_service(nx)
                              /\ log' = log \o <<c, Rot(cursor, nx, "ok")>>
                              /\ bi' = bi + batch_size
                              /\ pc' = "batch"
                      /\ UNCHANGED out
                 [] o = "http" ->
                      /\ log' = Append(log, c)
                      /\ bi' = bi + batch_size
                      /\ pc' = "batch"
                      /\ UNCHANGED <<cursor, session, out>>
                 [] OTHER ->
                      /\ log' = Append(log, c)
                      /\ pc' = "crashed"
                      /\ UNCHANGED <<cursor, session, out, bi>>
    /\ UNCHANGED <<disk, pure, variant, N, urls, plist, tok, video_ids, retries, all_ids, existing,
                   acc, dirExists, files>>

\* Step 4 of process_urls: save_metadata_to_csv(metadata), append mode
YmeSave ==
    /\ variant = "yme" /\ pc = "batch" /\ bi >= Len(all_ids)
    /\ files' = IF files = <<>> THEN <<out>> ELSE <<files[1] \o out>>
    /\ pc' = "done"
    /\ UNCHANGED <<disk, pure, variant, N, cursor, session, urls, plist, tok, video_ids, retries,
                   all_ids, existing, bi, out, acc, dirExists, log, faults>>

-----------------------------------------------------------------------------
(* vdata.py: process_url, called once per URL of the list; the module globals *)
(* (current_key_index) and the metadata directory live on between the calls  *)

\* what handle_errors' wrapper returns after an exception
None == <<-1>>

\* log_error appended a line to error_log.txt
Err(what) ==
    [ev |-> "errlog", kind |-> what, target |-> "", arg |-> <<>>, key |-> 0, res |-> "ok"]

BuildOutcomes == {"ok", "fail"}

ChannelIds == {"UCc", "UC0"}

\* get_playlist_videos pages playlistItems().list, get_channel_videos search().list
ListKind(id) == IF id \in ChannelIds THEN "search" ELSE "page"

\* (mutant) check_existing_video_ids without the filter
check_existing_nothing(ids, fs) == ids

\* check_existing_video_ids: the identifiers not in any store file, in order
check_existing_video_ids(ids, fs) == SelectSeq(ids, LAMBDA v : v \notin KnownIds(fs))

\* process_url up to the call of the listing function
VdUrl ==
    /\ variant = "vdata" /\ pc = "url" /\ urls # <<>>
    /\ LET r == extract_identifier(Head(urls))
       IN  /\ urls' = Tail(urls)
           /\ pc' = IF r.type \in {"playlist", "channel_id"} THEN "tbuild" ELSE "url"
           /\ plist' = IF r.type \in {"playlist", "channel_id"} THEN r.id ELSE plist
           /\ tok' = 0
           /\ video_ids' = <<>>
           /\ log' = Append(log, Begin(Head(urls), r.type))
    /\ UNCHANGED <<disk, pure, variant, N, cursor, session, retries, all_ids, existing, bi, out,
                   acc, dirExists, files, faults>>

\* build_youtube_service, one try; a failing build switches the key and recurses
VdBuild ==
    /\ variant = "vdata" /\ pc \in {"tbuild", "fbuild"}
    /\ \E o \in BuildOutcomes :
        /\ MayFail(o)
        /\ faults' = faults + Fault(o)
        /\ IF o = "ok"
           THEN /\ session' = create_youtube_service(cursor)
                /\ log' = Append(log, Bld(cursor, "ok"))
                /\ pc' = IF pc = "tbuild" THEN "tpage" ELSE "fbatch"
                /\ UNCHANGED cursor
           ELSE /\ cursor' = next_index(cursor, N)
                /\ log' = log \o <<Bld(cursor, "fail"), Err("build"),
                                   Rot(cursor, next_index(cursor, N), "ok")>>
                /\ UNCHANGED <<session, pc>>
    /\ UNCHANGED <<disk, pure, variant, N, urls, plist, tok, video_ids, retries, all_ids, existing,
                   bi, out, acc, dirExists, files>>

\* get_playlist_videos / get_channel_videos under handle_errors: one pass of the
\* while loop; any exception is logged, the key is switched and None is returned
VdPage ==
    /\ variant = "vdata" /\ pc = "tpage"
    /\ \E o \in Outcomes :
        /\ MayFail(o)
        /\ faults' = faults + Fault(o)
        /\ LET c     == Call(ListKind(plist), plist, <<tok>>, session, o)
               nx    == next_index(cursor, N)
               pages == ServerPages(plist)
               got   == video_ids \o pages[tok + 1]
           IN  IF o = "ok"
               THEN /\ video_ids' = got
                    /\ IF tok + 1 < Len(pages)
                       THEN /\ tok' = tok + 1
                            /\ pc' = "tpage"
                            /\ log' = Append(log, c)
                       ELSE /\ tok' = 0
                            /\ pc' = "check"
                            /\ log' = log \o <<c, Ret(plist, got, "list")>>
                    /\ UNCHANGED cursor
               ELSE /\ video_ids' = None
                    /\ cursor' = nx
                    /\ log' = log \o <<c, Err("list"), Rot(cursor, nx, "ok"),
                                       Ret(plist, <<>>, "None")>>
                    /\ pc' = "check"
                    /\ UNCHANGED tok
    /\ UNCHANGED <<disk, pure, variant, N, session, urls, plist, retries, all_ids, existing, bi,
                   out, acc, dirExists, files>>

\* process_url: check_existing_video_ids(video_ids); os.listdir raises when the
\* directory is missing, the comprehension raises when video_ids is None
VdCheck ==
    /\ variant = "vdata" /\ pc = "check"
    /\ IF ~dirExists \/ video_ids = None
       THEN /\ pc' = "crashed"
            /\ UNCHANGED <<existing, all_ids, bi, out, retries>>
       ELSE /\ existing' = KnownIds(files)
            /\ all_ids' = check_existing_video_ids(video_ids, files)
            /\ bi' = 0
            /\ out' = <<>>
            /\ retries' = retry_budget
            /\ pc' = "fbuild"
    /\ UNCHANGED <<disk, pure, variant, N, cursor, session, urls, plist, tok, video_ids, acc,
                   dirExists, files, log, faults>>

\* (mutant) the test made before the decrement
retry_again_early(r) == r > 0

\* get_video_metadata: after `retries -= 1', `if retries > 0' sleeps and tries again
retry_again(r) == r - 1 > 0

\* get_video_metadata: one attempt on the batch at offset bi
VdBatch ==
    /\ variant = "vdata" /\ pc = "fbatch" /\ bi < Len(all_ids)
    /\ LET batch == Slice(all_ids, bi, bi + batch_size)
       IN  \E o \in Outcomes, k \in Partials(batch) :
            /\ MayFail(o)
            /\ o = "bad" \/ k = 0
            /\ faults' = faults + Fault(o)
            /\ LET c == Call("batch", "", batch, session, o)
               IN  IF o = "ok"
                   THEN /\ out' = out \o Records(batch)
                        /\ log' = Append(log, c)
                        /\ bi' = bi + batch_size
                        /\ retries' = retry_budget
                   ELSE /\ out' = out \o SubSeq(Records(batch), 1, k)
                        /\ IF retry_again(retries)
                           THEN /\ log' = log \o <<c, Err("batch"), Sleep(5)>>
                                /\ retries' = retries - 1
                                /\ UNCHANGED bi
                           ELSE /\ log' = log \o <<c, Err("batch")>>
                                /\ retries' = retry_budget
                                /\ bi' = bi + batch_size
    /\ UNCHANGED <<disk, pure, variant, N, cursor, session, urls, pc, plist, tok, video_ids,
                   all_ids, existing, acc, dirExists, files>>

\* the store file this process wrote last, when it may have been written in the
\* current second: no sleep since (0: there is none)
SameSecondFile ==
    LET saves == {i \in 1..Len(log) : log[i].ev = "save"}
        last  == CHOOSE i \in saves : \A j \in saves : j <= i
    IN  IF saves = {} \/ \E d \in 1..Len(log) : d > last /\ log[d].ev = "sleep"
        THEN 0
        ELSE log[last].arg[1]

\* process_url: save_to_csv(video_data) opens metadata_<timestamp>_<pid>.csv with
\* mode 'w'; the timestamp has the resolution of a second, so a process that
\* saves twice within a second writes the same file twice
VdSave ==
    /\ variant = "vdata" /\ pc = "fbatch" /\ bi >= Len(all_ids)
    /\ dirExists' = TRUE
    /\ \E same \in BOOLEAN :
        /\ same => SameSecondFile # 0
        /\ files' = IF same THEN [files EXCEPT ![SameSecondFile] = out]
                    ELSE Append(files, out)
        /\ log' = Append(log, IF same THEN Saved(SameSecondFile, "overwrite")
                              ELSE Saved(Len(files) + 1, "new"))
    /\ pc' = "url"
    /\ UNCHANGED <<disk, pure, variant, N, cursor, session, urls, plist, tok, video_ids, retries,
                   all_ids, existing, bi, out, acc, faults>>

-----------------------------------------------------------------------------
(* test/vdata_old.py: process_urls *)

\* DataFrame.drop_duplicates(subset="Video ID", keep="first"): a row stays when
\* no earlier row carries its Video ID
drop_duplicates(rows) ==
    LET keep == SeqOfSet({i \in 1..Len(rows) : \A j \in 1..(i - 1) : rows[j] # rows[i]})
    IN  [k \in 1..Len(keep) |-> rows[keep[k]]]

RECURSIVE Concat(_)
Concat(fs) == IF fs = <<>> THEN <<>> ELSE Head(fs) \o Concat(Tail(fs))

\* deduplication.main: the store files are replaced by one deduplicated file
Consolidate(fs) ==
    IF Concat(fs) = <<>> THEN fs ELSE << drop_duplicates(Concat(fs)) >>

\* the head of the loop of process_urls
OldUrl ==
    /\ variant = "old" /\ pc = "url" /\ urls # <<>>
    /\ LET r == extract_identifier_old(Head(urls))
       IN  /\ urls' = Tail(urls)
           /\ pc' = CASE r.type = "handle"                    -> "hbuild"
                      [] r.type \in {"playlist", "channel_id"} -> "tbuild"
                      [] OTHER                                -> "check"
           /\ plist' = IF r.type \in {"handle", "playlist", "channel_id"} THEN r.id ELSE plist
           /\ tok' = 0
           /\ video_ids' = IF r.type = "video" THEN <<r.vid>> ELSE <<>>
           /\ log' = Append(log, Begin(Head(urls), r.type))
    /\ UNCHANGED <<disk, pure, variant, N, cursor, session, retries, all_ids, existing, bi, out,
                   acc, dirExists, files, faults>>

\* build_youtube_service, one try; switch_api_key raises when the index wraps
OldBuild ==
    /\ variant = "old" /\ pc \in {"hbuild", "tbuild", "fbuild"}
    /\ \E o \in BuildOutcomes :
        /\ MayFail(o)
        /\ faults' = faults + Fault(o)
        /\ LET nx == next_index(cursor, N)
           IN  IF o = "ok"
               THEN /\ session' = create_youtube_service(cursor)
                    /\ log' = Append(log, Bld(cursor, "ok"))
                    /\ pc' = CASE pc = "hbuild" -> "hsearch"
                               [] pc = "tbuild" -> "tpage"
                               [] OTHER         -> "fbatch"
                    /\ UNCHANGED cursor
               ELSE /\ cursor' = nx
                    /\ log' = log \o <<Bld(cursor, "fail"),
                                       Rot(cursor, nx, IF wrap_is_fatal(nx) THEN "exhausted" ELSE "ok")>>
                    /\ pc' = IF wrap_is_fatal(nx) THEN "exhausted" ELSE pc
                    /\ UNCHANGED session
    /\ UNCHANGED <<disk, pure, variant, N, urls, plist, tok, video_ids, retries, all_ids, existing,
                   bi, out, acc, dirExists, files>>

\* resolve_handle_to_channel_id: the search().list call inside its try
OldSearch ==
    /\ variant = "old" /\ pc = "hsearch"
    /\ \E o \in Outcomes :
        /\ MayFail(o)
        /\ faults' = faults + Fault(o)
        /\ log' = Append(log, Call("resolve", plist, <<>>, session, o))
        /\ IF o = "ok" /\ ServerHandle(plist) # ""
           THEN /\ plist' = ServerHandle(plist)
                /\ pc' = "tbuild"
           ELSE /\ pc' = "url"
                /\ UNCHANGED plist
    /\ UNCHANGED <<disk, pure, variant, N, cursor, session, urls, tok, video_ids, retries, all_ids,
                   existing, bi, out, acc, dirExists, files>>

\* get_playlist_videos / get_channel_videos: one pass of the while loop; an
\* exception leaves process_urls
OldPage ==
    /\ variant = "old" /\ pc = "tpage"
    /\ \E o \in Outcomes :
        /\ MayFail(o)
        /\ faults' = faults + Fault(o)
        /\ LET c     == Call(ListKind(plist), plist, <<tok>>, session, o)
               pages == ServerPages(plist)
               got   == video_ids \o pages[tok + 1]
           IN  IF o = "ok"
               THEN /\ video_ids' = got
                    /\ IF tok + 1 < Len(pages)
                       THEN /\ tok' = tok + 1
                            /\ pc' = "tpage"
                            /\ log' = Append(log, c)
                       ELSE /\ tok' = 0
                            /\ pc' = "check"
                            /\ log' = log \o <<c, Ret(plist, got, "list")>>
               ELSE /\ log' = Append(log, c)
                    /\ pc' = "crashed"
                    /\ UNCHANGED <<tok, video_ids>>
    /\ UNCHANGED <<disk, pure, variant, N, cursor, session, urls, plist, retries, all_ids, existing,
                   bi, out, acc, dirExists, files>>

\* process_urls: if video_ids: check_existing_video_ids; if new_video_ids: fetch
OldCheck ==
    /\ variant = "old" /\ pc = "check"
    /\ IF video_ids = <<>>
       THEN /\ pc' = "url"
            /\ UNCHANGED <<existing, all_ids, bi, out>>
       ELSE IF ~dirExists
       THEN /\ pc' = "crashed"
            /\ UNCHANGED <<existing, all_ids, bi, out>>
       ELSE /\ existing' = KnownIds(files)
            /\ all_ids' = check_existing_video_ids(video_ids, files)
            /\ bi' = 0
            /\ out' = <<>>
            /\ pc' = IF check_existing_video_ids(video_ids, files) = <<>> THEN "url" ELSE "fbuild"
    /\ UNCHANGED <<disk, pure, variant, N, cursor, session, urls, plist, tok, video_ids, retries,
                   acc, dirExists, files, log, faults>>

\* get_video_metadata: the batch at offset bi; an exception of execute() skips
\* the batch, an exception while the items are processed leaves process_urls
OldBatch ==
    /\ variant = "old" /\ pc = "fbatch" /\ bi < Len(all_ids)
    /\ \E o \in Outcomes :
        /\ MayFail(o)
        /\ faults' = faults + Fault(o)
        /\ LET batch == Slice(all_ids, bi, bi + batch_size)
           IN  /\ log' = Append(log, Call("batch", "", batch, session, o))
               /\ out' = IF o = "ok" THEN out \o Records(batch) ELSE out
               /\ pc' = IF o = "bad" THEN "crashed" ELSE "fbatch"
               /\ bi' = IF o = "bad" THEN bi ELSE bi + batch_size
    /\ UNCHANGED <<disk, pure, variant, N, cursor, session, urls, plist, tok, video_ids, retries,
                   all_ids, existing, acc, dirExists, files>>

\* get_video_metadata returns; process_urls extends all_video_data
OldFetched ==
    /\ variant = "old" /\ pc = "fbatch" /\ bi >= Len(all_ids)
    /\ acc' = acc \o out
    /\ pc' = "url"
    /\ UNCHANGED <<disk, pure, variant, N, cursor, session, urls, plist, tok, video_ids, retries,
                   all_ids, existing, bi, out, dirExists, files, log, faults>>

\* the end of process_urls: save_to_csv when there is data, which writes a new
\* store file and runs report.py, cdata.py and deduplication.py
OldSave ==
    /\ variant = "old" /\ pc = "url" /\ urls = <<>>
    /\ IF acc = <<>>
       THEN UNCHANGED <<dirExists, files>>
       ELSE /\ dirExists' = TRUE
            /\ files' = Consolidate(Append(files, acc))
    /\ pc' = "done"
    /\ UNCHANGED <<disk, pure, variant, N, cursor, session, urls, plist, tok, video_ids, retries,
                   all_ids, existing, bi, out, acc, log, faults>>

-----------------------------------------------------------------------------
(* The durable store, line by line *)

\* a file that does not exist
NoFile == [exists |-> FALSE, lines |-> <<>>]

\* the line of the column names
Header == [kind |-> "header", id |-> 0, ver |-> 0]

\* the line to_csv writes for the column names of a DataFrame without columns
Blank == [kind |-> "blank", id |-> 0, ver |-> 0]

\* the line of a record: its Video ID, and `ver' for its other fields
Row(id, ver) == [kind |-> "row", id |-> id, ver |-> ver]

-----------------------------------------------------------------------------

Variants == {"yme", "vdata", "old"}

Init ==
    /\ variant \in Variants
    /\ N \in 1..MaxKeys
    /\ cursor = 0
    /\ session = IF variant = "yme" THEN 0 ELSE -1
    /\ urls \in UrlLists
    /\ pc = IF variant = "yme" THEN "start" ELSE "url"
    /\ plist = ""
    /\ tok = 0
    /\ video_ids = <<>>
    /\ retries = 0
    /\ all_ids = <<>>
    /\ existing = {}
    /\ bi = 0
    /\ out = <<>>
    /\ acc = <<>>
    /\ dirExists \in BOOLEAN
    /\ files \in InitFiles
    /\ (variant = "yme" => dirExists)
    /\ (~dirExists => files = <<>>)
    /\ log = <<>>
    /\ faults = 0
    /\ layout = "none"
    /\ csv = NoFile
    /\ final = NoFile
    /\ appended = <<>>
    /\ meta = {}
    /\ temp = {}
    /\ archive = {}
    /\ df = <<>>
    /\ dpc = "idle"
    /\ nw = 0
    /\ np = 0
    /\ raised = FALSE
    /\ given = <<>>
    /\ fn = "idle"
    /\ ret = <<>>

Next ==
    \/ YmeStart
    \/ YmeUrl
    \/ YmeChan
    \/ YmePage
    \/ YmeDedupIds
    \/ YmeBatch
    \/ YmeSave
    \/ VdUrl
    \/ VdBuild
    \/ VdPage
    \/ VdCheck
    \/ VdBatch
    \/ VdSave
    \/ OldUrl
    \/ OldBuild
    \/ OldSearch
    \/ OldPage
    \/ OldCheck
    \/ OldBatch
    \/ OldFetched
    \/ OldSave

Spec == Init /\ [][Next]_vars

-----------------------------------------------------------------------------
(* Operations on the durable store.  StoreSpec exercises them on their own:  *)
(* save_metadata_to_csv and deduplicate_metadata on the single file of       *)
(* YouTubeMetadataExtractor (layout "file"), save_to_csv of vdata.py and the *)
(* steps of deduplication.main on the directory "metadata" (layout "dir").   *)
(* A writer may write into the directory at any step of deduplication.main.  *)

VideoIDs == {1, 2}

\* the Video IDs of the records handed to one write of the store
RecordSeqs == UNION {[1..n -> VideoIDs] : n \in 0..MaxRows}

\* the records of the w-th write: no two records of a run are the same record
NewRows(ids, w) == [k \in 1..Len(ids) |-> Row(ids[k], (w - 1) * MaxRows + k)]

\* DataFrame(metadata).to_csv(file, index=False, mode='a', header=not exists):
\* the DataFrame of an empty list has no columns, and its header is an empty line
to_csv_append(f, rows) ==
    IF f.exists
    THEN [exists |-> TRUE, lines |-> f.lines \o rows]
    ELSE [exists |-> TRUE,
          lines  |-> IF rows = <<>> THEN <<Blank>> ELSE <<Header>> \o rows]

\* read_csv skips empty lines and takes the first line left as the column names
NonBlank(lines) == SelectSeq(lines, LAMBDA l : l.kind # "blank")

\* read_csv finds the column 'Video ID' (else EmptyDataError, or KeyError later)
Readable(lines) == NonBlank(lines) # <<>> /\ NonBlank(lines)[1] = Header

\* the rows of the DataFrame read_csv returns
DataRows(lines) == Tail(NonBlank(lines))

\* (mutant) drop_duplicates(keep='last')
deduplicate_keep_last(rows) ==
    LET keep == SeqOfSet({i \in 1..Len(rows) :
                            \A j \in (i + 1)..Len(rows) : rows[j].id # rows[i].id})
    IN  [k \in 1..Len(keep) |-> rows[keep[k]]]

\* deduplicate_dataframe: df.drop_duplicates(subset=['Video ID'], keep='first')
deduplicate_dataframe(rows) ==
    LET keep == SeqOfSet({i \in 1..Len(rows) :
                            \A j \in 1..(i - 1) : rows[j].id # rows[i].id})
    IN  [k \in 1..Len(keep) |-> rows[keep[k]]]

\* save_metadata_to_csv(metadata)
SaveMetadata ==
    /\ layout = "file" /\ nw < MaxWrites /\ ~raised
    /\ \E ids \in RecordSeqs :
        /\ csv' = to_csv_append(csv, NewRows(ids, nw + 1))
        /\ appended' = appended \o NewRows(ids, nw + 1)
    /\ nw' = nw + 1
    /\ UNCHANGED <<run, pure, layout, final, meta, temp, archive, df, dpc, np, raised>>

\* deduplicate_metadata: read_csv(metadata_file), drop_duplicates, to_csv(final_file)
DeduplicateMetadata ==
    /\ layout = "file" /\ csv.exists /\ ~raised
    /\ IF Readable(csv.lines)
       THEN /\ final' = [exists |-> TRUE,
                         lines  |-> <<Header>> \o deduplicate_dataframe(DataRows(csv.lines))]
            /\ UNCHANGED raised
       ELSE /\ raised' = TRUE
            /\ UNCHANGED final
    /\ np' = np + 1
    /\ np < MaxPasses
    /\ UNCHANGED <<run, pure, layout, csv, appended, meta, temp, archive, df, dpc, nw>>

\* a file of a directory
FileOf(kind, n, lines) == [kind |-> kind, n |-> n, lines |-> lines]

\* vdata.save_to_csv(data): a new file metadata_<timestamp>_<pid>.csv, header first
WritePartial ==
    /\ layout = "dir" /\ nw < MaxWrites
    /\ \E ids \in RecordSeqs :
        meta' = meta \cup {FileOf("metadata", nw + 1, <<Header>> \o NewRows(ids, nw + 1))}
    /\ nw' = nw + 1
    /\ UNCHANGED <<run, pure, layout, csv, final, appended, temp, archive, df, dpc, np, raised>>

\* load_csv_files_from_directory: read_csv of every file, in the order of
\* os.listdir, and concat; main returns when there is no row
PassLoad ==
    /\ layout = "dir" /\ dpc = "idle" /\ np < MaxPasses
    /\ np' = np + 1
    /\ \E order \in Perms(meta) :
        LET rows == Concat([k \in 1..Len(order) |-> DataRows(order[k].lines)])
        IN  /\ df' = rows
            /\ dpc' = IF rows = <<>> THEN "idle" ELSE "loaded"
    /\ UNCHANGED <<run, pure, layout, csv, final, appended, meta, temp, archive, nw, raised>>

\* deduplicate_dataframe(df, key_column="Video ID")
PassDedup ==
    /\ layout = "dir" /\ dpc = "loaded"
    /\ df' = deduplicate_dataframe(df)
    /\ dpc' = "deduped"
    /\ UNCHANGED <<run, pure, layout, csv, final, appended, meta, temp, archive, nw, np, raised>>

\* deduplication.save_to_csv(deduplicated_df, "deduplication")
PassSaveTemp ==
    /\ layout = "dir" /\ dpc = "deduped"
    /\ temp' = temp \cup {FileOf("deduplicated", np, <<Header>> \o df)}
    /\ dpc' = "saved"
    /\ UNCHANGED <<run, pure, layout, csv, final, appended, meta, archive, df, nw, np, raised>>

\* (mutant) the originals are moved to the archive as soon as the DataFrame is
\* deduplicated, before anything has been saved
PassArchiveUnsaved ==
    /\ layout = "dir" /\ dpc = "deduped"
    /\ archive' = archive \cup meta
    /\ meta' = {}
    /\ dpc' = "archived"
    /\ UNCHANGED <<run, pure, layout, csv, final, appended, temp, df, nw, np, raised>>

\* move_files_to_archive("metadata", "archive"): every file found is moved
PassArchive ==
    /\ layout = "dir" /\ dpc = "saved"
    /\ archive' = archive \cup meta
    /\ meta' = {}
    /\ dpc' = "archived"
    /\ UNCHANGED <<run, pure, layout, csv, final, appended, temp, df, nw, np, raised>>

\* shutil.move(deduplicated_file, "metadata/...")
PassMoveBack ==
    /\ layout = "dir" /\ dpc = "archived"
    /\ meta' = meta \cup temp
    /\ temp' = {}
    /\ dpc' = "moved"
    /\ UNCHANGED <<run, pure, layout, csv, final, appended, archive, df, nw, np, raised>>

\* shutil.rmtree("deduplication"); main returns
PassCleanup ==
    /\ layout = "dir" /\ dpc = "moved"
    /\ temp' = {}
    /\ df' = <<>>
    /\ dpc' = "idle"
    /\ UNCHANGED <<run, pure, layout, csv, final, appended, meta, archive, nw, np, raised>>

InitStore ==
    /\ variant = "none" /\ N = 1 /\ cursor = 0 /\ session = 0
    /\ urls = <<>> /\ pc = "store" /\ plist = "" /\ tok = 0
    /\ video_ids = <<>> /\ retries = 0 /\ all_ids = <<>> /\ existing = {}
    /\ bi = 0 /\ out = <<>> /\ acc = <<>> /\ dirExists = TRUE /\ files = <<>>
    /\ log = <<>> /\ faults = 0
    /\ layout \in {"file", "dir"}
    /\ csv = NoFile
    /\ final = NoFile
    /\ appended = <<>>
    /\ meta = {}
    /\ temp = {}
    /\ archive = {}
    /\ df = <<>>
    /\ dpc = "idle"
    /\ nw = 0
    /\ np = 0
    /\ raised = FALSE
    /\ given = <<>>
    /\ fn = "idle"
    /\ ret = <<>>

NextStore ==
    \/ SaveMetadata
    \/ DeduplicateMetadata
    \/ WritePartial
    \/ PassLoad
    \/ PassDedup
    \/ PassSaveTemp
    \/ PassArchive
    \/ PassMoveBack
    \/ PassCleanup

StoreSpec == InitStore /\ [][NextStore]_vars

-----------------------------------------------------------------------------
(* The functions of the scripts that work on text, on their own.  A text is  *)
(* a string; FuncSpec draws an argument and applies one function to it.      *)

MaxPieces == 3
MaxParts == 4
MaxAttempt == 8

\* the character of s at position i
At(s, i) == SubSeq(s, i, i)

\* the text p stands in s at position i
HasAt(s, p, i) == i >= 1 /\ i + Len(p) - 1 <= Len(s) /\ SubSeq(s, i, i + Len(p) - 1) = p

\* str.find, 1-based: the first position of p in s (0: p is not in s)
Find(s, p) ==
    LET at == {i \in 1..Len(s) : HasAt(s, p, i)}
    IN  IF at = {} THEN 0 ELSE CHOOSE i \in at : \A j \in at : i <= j

\* `p in s'
In(p, s) == Find(s, p) # 0

RECURSIVE Split(_, _)
\* str.split(sep): the parts between the occurrences of sep, left to right
Split(s, sep) ==
    LET i == Find(s, sep)
    IN  IF i = 0 THEN <<s>>
        ELSE <<SubSeq(s, 1, i - 1)>> \o Split(SubSeq(s, i + Len(sep), Len(s)), sep)

\* the character class [a-zA-Z0-9_-]
IdChars ==
    { "a", "b", "c", "d", "e", "f", "g", "h", "i", "j", "k", "l", "m",
      "n", "o", "p", "q", "r", "s", "t", "u", "v", "w", "x", "y", "z",
      "A", "B", "C", "D", "E", "F", "G", "H", "I", "J", "K", "L", "M",
      "N", "O", "P", "Q", "R", "S", "T", "U", "V", "W", "X", "Y", "Z",
      "0", "1", "2", "3", "4", "5", "6", "7", "8", "9", "_", "-" }

\* the character class \d
Digits ==
    { "0", "1", "2", "3", "4", "5", "6", "7", "8", "9" }

\* a character class of a regular expression: a set, or the complement of one
Class(neg, set) == [neg |-> neg, set |-> set]

InClass(c, cls) == IF cls.neg THEN c \notin cls.set ELSE c \in cls.set

\* the end of the longest row of characters of the class that starts at i
\* (i - 1 when there is none): what a greedy `cls*' takes
RunEnd(s, i, cls) ==
    LET ends == {j \in (i - 1)..Len(s) : \A k \in i..j : InClass(At(s, k), cls)}
    IN  CHOOSE j \in ends : \A m \in ends : m <= j

\* re.search of `(?:lit1|lit2|..)(cls+)': the group of the leftmost match
\* (<<>> when there is no match, <<group>> otherwise)
Search(s, lits, cls) ==
    LET at == {i \in 1..Len(s) :
                 \E l \in lits : /\ HasAt(s, l, i)
                                 /\ i + Len(l) <= Len(s)
                                 /\ InClass(At(s, i + Len(l)), cls)}
    IN  IF at = {} THEN <<>>
        ELSE LET i == CHOOSE i \in at : \A j \in at : i <= j
                 l == CHOOSE l \in lits : HasAt(s, l, i)
             IN  << SubSeq(s, i + Len(l), RunEnd(s, i + Len(l), cls)) >>

\* what a classifier returns: the type and the identifier
Found(type, id) == [type |-> type, id |-> id]

NotFound == Found("none", "")

\* YouTubeMetadataExtractor.parse_video_url
parse_video_url(url) ==
    IF In("youtu.be", url)
    THEN Found("video", Split(url, "/")[Len(Split(url, "/"))])
    ELSE LET match == Search(url, {"?v=", "&v="}, Class(FALSE, IdChars))
         IN  IF match # <<>> THEN Found("video", match[1]) ELSE NotFound

\* YouTubeMetadataExtractor.parse_playlist_url
parse_playlist_url(url) ==
    LET match == Search(url, {"list="}, Class(FALSE, IdChars))
    IN  IF match # <<>> THEN Found("playlist", match[1]) ELSE NotFound

\* YouTubeMetadataExtractor.parse_channel_url
parse_channel_url(url) ==
    IF In("/channel/", url)
    THEN Found("channel", Split(url, "/channel/")[Len(Split(url, "/channel/"))])
    ELSE IF In("/@", url)
    THEN Found("channel", Split(url, "/@")[Len(Split(url, "/@"))])
    ELSE NotFound

\* YouTubeMetadataExtractor.parse_url, on the text of the URL
parse_url_text(url) ==
    IF In("youtube.com/watch", url) \/ In("youtu.be", url) THEN parse_video_url(url)
    ELSE IF In("youtube.com/playlist", url) THEN parse_playlist_url(url)
    ELSE IF In("youtube.com/channel", url) \/ In("@", url) THEN parse_channel_url(url)
    ELSE NotFound

\* the four searches of vdata.extract_identifier
match_playlist(url) == Search(url, {"playlist?list="}, Class(TRUE, {"&"}))

match_video(url) == Search(url, {"watch?v=", "/v/"}, Class(FALSE, IdChars))

match_channel(url) == Search(url, {"/channel/"}, Class(TRUE, {"/"}))

match_handle(url) == Search(url, {"@"}, Class(TRUE, {"/"}))

\* vdata.extract_identifier, on the text of the URL
extract_identifier_text(url) ==
    IF match_playlist(url) # <<>> THEN Found("playlist", match_playlist(url)[1])
    ELSE IF match_video(url) # <<>> THEN Found("video", match_video(url)[1])
    ELSE IF match_channel(url) # <<>> THEN Found("channel_id", match_channel(url)[1])
    ELSE IF match_handle(url) # <<>> THEN Found("handle", match_handle(url)[1])
    ELSE NotFound

\* vdata_old.extract_identifier, on the text of the URL
extract_identifier_old_text(url) ==
    IF In("playlist?list=", url) THEN Found("playlist", Split(url, "list=")[2])
    ELSE IF In("watch?v=", url) THEN Found("video", Split(Split(url, "watch?v=")[2], "&")[1])
    ELSE IF In("youtu.be/", url) THEN Found("video", Split(Split(url, "youtu.be/")[2], "?")[1])
    ELSE IF In("shorts/", url) THEN Found("video", Split(Split(url, "shorts/")[2], "?")[1])
    ELSE IF In("/channel/", url) THEN Found("channel_id", Split(url, "/channel/")[2])
    ELSE IF In("@", url) THEN Found("handle", Split(url, "@")[2])
    ELSE NotFound

\* the value of a decimal digit
DigitVal(c) == CHOOSE n \in 0..9 : At("0123456789", n + 1) = c

RECURSIVE int(_)
\* int(digits)
int(d) == IF d = "" THEN 0 ELSE 10 * int(SubSeq(d, 1, Len(d) - 1)) + DigitVal(At(d, Len(d)))

\* one optional group `(?:(\d+)U)?' of the pattern of parse_duration, tried at
\* position i: the digits it captured ("" when it took nothing) and where the
\* match goes on
Component(s, i, unit) ==
    LET e == RunEnd(s, i, Class(FALSE, Digits))
    IN  IF e >= i /\ HasAt(s, unit, e + 1)
        THEN [digits |-> SubSeq(s, i, e), next |-> e + 2]
        ELSE [digits |-> "", next |-> i]

\* (mutant) a parse_duration that reads the minutes as seconds
parse_duration_flat(duration) ==
    IF duration = "" \/ ~HasAt(duration, "PT", 1) THEN 0
    ELSE LET h  == Component(duration, 3, "H")
             m  == Component(duration, h.next, "M")
             sc == Component(duration, m.next, "S")
         IN  int(h.digits) * 3600 + int(m.digits) + int(sc.digits)

\* YouTubeMetadataExtractor.parse_duration: re.match of
\* PT(?:(\d+)H)?(?:(\d+)M)?(?:(\d+)S)? at the start of the text
parse_duration(duration) ==
    IF duration = "" \/ ~HasAt(duration, "PT", 1) THEN 0
    ELSE LET h  == Component(duration, 3, "H")
             m  == Component(duration, h.next, "M")
             sc == Component(duration, m.next, "S")
         IN  int(h.digits) * 3600 + int(m.digits) * 60 + int(sc.digits)

backoff_cap == 60

\* (mutant) a backoff without its cap
exponential_backoff_uncapped(attempt) == 2 ^ attempt

\* YouTubeMetadataExtractor.exponential_backoff: wait_time = min(60, 2 ** retries)
exponential_backoff(attempt) == Min(backoff_cap, 2 ^ attempt)

\* the pieces the URLs under test are put together from
UrlPieces ==
    { "https://www.youtube.com/", "https://youtu.be/", "watch?v=", "playlist?list=",
      "channel/", "shorts/", "@", "abc123" }

\* the pieces the duration texts under test are put together from
DurationParts == { "PT", "1H", "2M", "3S", "45S", "P1D", "x" }

RECURSIVE Concats(_, _)
\* the texts made of n pieces
Concats(pieces, n) ==
    IF n = 0 THEN {""} ELSE {p \o t : p \in pieces, t \in Concats(pieces, n - 1)}

Urls == UNION {Concats(UrlPieces, n) : n \in 1..MaxPieces}

Durations == UNION {Concats(DurationParts, n) : n \in 0..MaxParts}

Given(kind, val) == [kind |-> kind, val |-> val]

\* parse_url(url)
ParseUrl ==
    /\ pc = "func" /\ fn = "none" /\ given.kind = "url"
    /\ fn' = "parse_url"
    /\ ret' = parse_url_text(given.val)
    /\ UNCHANGED <<run, disk, given>>

\* vdata.extract_identifier(url)
ExtractIdentifier ==
    /\ pc = "func" /\ fn = "none" /\ given.kind = "url"
    /\ fn' = "extract_identifier"
    /\ ret' = extract_identifier_text(given.val)
    /\ UNCHANGED <<run, disk, given>>

\* vdata_old.extract_identifier(url)
ExtractIdentifierOld ==
    /\ pc = "func" /\ fn = "none" /\ given.kind = "url"
    /\ fn' = "extract_identifier_old"
    /\ ret' = extract_identifier_old_text(given.val)
    /\ UNCHANGED <<run, disk, given>>

\* parse_duration(duration)
ParseDuration ==
    /\ pc = "func" /\ fn = "none" /\ given.kind = "duration"
    /\ fn' = "parse_duration"
    /\ ret' = parse_duration(given.val)
    /\ UNCHANGED <<run, disk, given>>

\* exponential_backoff(retries): time.sleep(wait_time), and nothing else
ExponentialBackoff ==
    /\ pc = "func" /\ fn = "none" /\ given.kind = "retries"
    /\ fn' = "exponential_backoff"
    /\ ret' = exponential_backoff(given.val)
    /\ UNCHANGED <<run, disk, given>>

InitFunc ==
    /\ variant = "none" /\ N \in 1..MaxKeys /\ cursor \in 0..(N - 1) /\ session = cursor
    /\ urls = <<>> /\ pc = "func" /\ plist = "" /\ tok = 0
    /\ video_ids = <<>> /\ retries = 0 /\ all_ids = <<>> /\ existing = {}
    /\ bi = 0 /\ out = <<>> /\ acc = <<>> /\ dirExists = TRUE /\ files = <<>>
    /\ log = <<>> /\ faults = 0
    /\ layout = "none" /\ csv = NoFile /\ final = NoFile /\ appended = <<>>
    /\ meta = {} /\ temp = {} /\ archive = {} /\ df = <<>> /\ dpc = "idle"
    /\ nw = 0 /\ np = 0 /\ raised = FALSE
    /\ \/ \E u \in Urls : given = Given("url", u)
       \/ \E d \in Durations : given = Given("duration", d)
       \/ \E a \in 0..MaxAttempt : given = Given("retries", a)
    /\ (given.kind # "retries" => N = 1)
    /\ fn = "none"
    /\ ret = <<>>

NextFunc ==
    \/ ParseUrl
    \/ ExtractIdentifier
    \/ ExtractIdentifierOld
    \/ ParseDuration
    \/ ExponentialBackoff

FuncSpec == InitFunc /\ [][NextFunc]_vars

-----------------------------------------------------------------------------
(* Reading the history *)

CallIdx == {i \in 1..Len(log) : log[i].ev = "call"}

\* the same logical call: same operation, same target, same page token / batch
SameCall(a, b) == a.kind = b.kind /\ a.target = b.target /\ a.arg = b.arg

\* the next API call after position i (0 when there is none)
NextCall(i) ==
    LET later == {j \in (i + 1)..Len(log) : log[j].ev = "call"}
    IN  IF later = {} THEN 0 ELSE CHOOSE j \in later : \A m \in later : j <= m

\* the entry e may stand between two attempts of the call c, or is one of them
OfCall(e, c) ==
    \/ e.ev \in {"rotate", "errlog", "sleep"}
    \/ e.ev = "call" /\ SameCall(e, c)

RECURSIVE WalkBack(_, _)
\* the first position of the row of such entries that ends at j, for the call at i
WalkBack(j, i) ==
    IF j > 1 /\ OfCall(log[j - 1], log[i]) THEN WalkBack(j - 1, i) ELSE j

\* where the attempts of the call at i start
FirstAttempt(i) ==
    LET w == WalkBack(i, i)
    IN  CHOOSE j \in w..i : log[j].ev = "call" /\ \A m \in w..(j - 1) : log[m].ev # "call"

\* the attempts of the call at i, up to i
Attempts(i) ==
    LET f == FirstAttempt(i)
    IN  {m \in CallIdx : f <= m /\ m <= i}

\* the credentials tried for the call at i, up to i
Tried(i) == {log[m].key : m \in Attempts(i)}

\* the rotations onto a new credential made for the call at i, up to i
Rotations(i) ==
    LET f == FirstAttempt(i)
    IN  {m \in f..i : log[m].ev = "rotate" /\ log[m].res = "ok"}

\* the entries the step appended to the history
NewEntries == SubSeq(log', Len(log) + 1, Len(log'))

Last == log[Len(log)]

\* nothing more will be done by the run
RunOver ==
    \/ pc \in {"done", "exhausted", "crashed"}
    \/ variant = "vdata" /\ pc = "url" /\ urls = <<>>

IngestionCalls == {"page", "search", "chan", "batch"}

-----------------------------------------------------------------------------
(* C1: every API call of the pipeline that gets a quota-exceeded response    *)
(* while a credential of the pool is still untried for it is reissued, as    *)
(* the same logical call, with the next credential; it is given up only      *)
(* after every credential has been tried.  (The claim is about the two      *)
(* scripts it cites, YouTubeMetadataExtractor.py and vdata.py.)              *)
C1_QuotaRetriesSameCall ==
    \A i \in CallIdx :
        (variant \in {"yme", "vdata"}
            /\ log[i].kind \in IngestionCalls /\ log[i].res = "quota"
            /\ Cardinality(Tried(i)) < N)
        => IF NextCall(i) = 0
           THEN ~RunOver
           ELSE /\ SameCall(log[NextCall(i)], log[i])
                /\ log[NextCall(i)].key = (log[i].key + 1) % N

-----------------------------------------------------------------------------
\* the quota-exceeded responses of YouTubeMetadataExtractor
YmeQuota == {i \in CallIdx : variant = "yme" /\ log[i].res = "quota"}

\* the response at i is one of a row of quota-exceeded responses to its call
AllQuota(i) == \A m \in Attempts(i) : log[m].res = "quota"

\* switch_api_key, called for the response at i, ended the run
Exhausted(i) == i < Len(log) /\ log[i + 1].ev = "rotate" /\ log[i + 1].res = "exhausted"

(* C2, as stated: for every pool size N and every cursor position at which a *)
(* call starts, N consecutive quota-exceeded responses to the call cause     *)
(* exactly N-1 rotations, and exhaustion is signaled on the Nth response,    *)
(* not earlier and not later.                                                *)
C2_Original ==
    \A i \in YmeQuota :
        /\ AllQuota(i)
        /\ Exhausted(i) <=> Cardinality(Attempts(i)) = N
        /\ Exhausted(i) => Cardinality(Rotations(i)) = N - 1

(* C2, amended: in YouTubeMetadataExtractor a call that starts with the      *)
(* cursor at position c is exhausted by N-c consecutive quota-exceeded       *)
(* responses: they cause exactly N-c-1 rotations onto a new credential and   *)
(* exhaustion is signaled on the (N-c)th, not earlier and not later; for a   *)
(* call that starts at position 0 these are N-1 rotations and the Nth.       *)
C2_ExhaustedAfterRemainingKeys ==
    \A i \in YmeQuota :
        LET c == log[FirstAttempt(i)].key
            q == Cardinality(Attempts(i))
        IN  /\ AllQuota(i)
            /\ q <= N - c
            /\ Exhausted(i) <=> q = N - c
            /\ Cardinality(Rotations(i)) = q - 1
            /\ Exhausted(i) => Cardinality(Rotations(i)) = N - c - 1

\* a pool of at least two keys is exhausted by a call that started at cursor 0
C2_Witness ==
    /\ variant = "yme" /\ pc = "exhausted" /\ N >= 2
    /\ \E i \in YmeQuota :
        /\ Exhausted(i)
        /\ log[FirstAttempt(i)].key = 0
        /\ Cardinality(Attempts(i)) = N
        /\ Cardinality(Rotations(i)) = N - 1

-----------------------------------------------------------------------------
(* C3: in every variant a rotation that brings the cursor back to the        *)
(* position it started from (index 0) signals pool exhaustion as a fatal     *)
(* condition, and no API call is issued after it.                            *)
C3_WrapSignalsExhaustion ==
    \A i \in 1..Len(log) :
        (log[i].ev = "rotate" /\ log[i].arg[2] = 0)
        => /\ log[i].res = "exhausted"
           /\ \A j \in CallIdx : j < i

-----------------------------------------------------------------------------
\* the step rotated the credentials
Rotated == \E k \in 1..Len(NewEntries) : NewEntries[k].ev = "rotate"

(* C4: the cursor is always an index 0..N-1 of the pool, every rotation      *)
(* moves it from i to (i+1) mod N, and nothing else moves it.                *)
C4_CursorCyclic ==
    /\ [](N >= 1 /\ cursor \in 0..(N - 1))
    /\ [][IF Rotated THEN cursor' = (cursor + 1) % N ELSE cursor' = cursor]_vars

\* a pool of several keys has been rotated round to its first key
C4_Witness ==
    /\ N >= 2 /\ cursor = 0
    /\ \E i, j \in 1..Len(log) :
        /\ log[i].ev = "rotate" /\ log[i].arg = <<0, 1>>
        /\ log[j].ev = "rotate" /\ log[j].arg = <<N - 1, 0>>

-----------------------------------------------------------------------------
ListingCalls == {"page", "search"}

\* the next call or return after position i (0 when there is none)
NextStep(i) ==
    LET later == {j \in 1..Len(log) : j > i /\ log[j].ev \in {"call", "return"}}
    IN  IF later = {} THEN 0 ELSE CHOOSE j \in later : \A m \in later : j <= m

\* where the traversal that returns at position r started
TraversalStart(r) ==
    LET before == {j \in 1..(r - 1) : log[j].ev = "return"}
    IN  IF before = {} THEN 1 ELSE 1 + CHOOSE j \in before : \A m \in before : m <= j

\* the traversal that returns at r met no failure other than quota-exceeded
OnlyQuota(r) ==
    \A m \in TraversalStart(r)..r :
        log[m].ev = "call" => log[m].res \in {"ok", "quota"}

(* C5: a quota-exceeded failure on a page of a listing keeps the identifiers *)
(* of the earlier pages and the same page is requested again; a traversal    *)
(* that returns without a non-quota error returns the items of all pages of  *)
(* the listing, in server order, each page once.                             *)
C5_QuotaKeepsPages ==
    /\ \A i \in CallIdx :
        (log[i].kind \in ListingCalls /\ log[i].res = "quota"
            /\ Cardinality(Tried(i)) < N /\ ~Exhausted(i))
        => \/ NextStep(i) = 0 /\ ~RunOver
           \/ /\ NextStep(i) # 0
              /\ log[NextStep(i)].ev = "call"
              /\ SameCall(log[NextStep(i)], log[i])
    /\ \A r \in 1..Len(log) :
        (log[r].ev = "return" /\ OnlyQuota(r))
        => /\ log[r].res = "list"
           /\ log[r].arg = Concat(ServerPages(log[r].target))

-----------------------------------------------------------------------------
(* C6: a traversal never ends otherwise than by returning a sequence of      *)
(* identifiers or in pool exhaustion, whatever failures it meets.            *)
C6_TraversalEndsInListOrExhaustion ==
    /\ \A r \in 1..Len(log) : log[r].ev = "return" => log[r].res = "list"
    /\ (pc = "crashed" /\ Len(log) > 0)
        => ~(Last.ev = "call" /\ Last.kind \in ListingCalls \cup {"chan"})

-----------------------------------------------------------------------------
(* C7: no detail-fetch call of a run contains an identifier that was in the  *)
(* known-ID index when the run read it.                                      *)
C7_NoKnownIdRequested ==
    [][\A k \in 1..Len(NewEntries) :
          (NewEntries[k].ev = "call" /\ NewEntries[k].kind = "batch")
          => Range(NewEntries[k].arg) \cap existing = {}]_vars

\* a detail fetch was issued for a listing that overlaps the known-ID index
C7_Witness ==
    /\ variant = "vdata" /\ pc = "fbatch" /\ Len(log) > 0
    /\ Range(video_ids) \cap existing # {}
    /\ Last.ev = "call" /\ Last.kind = "batch" /\ Last.res = "ok"

-----------------------------------------------------------------------------
(* The running detail fetch *)

\* the batch loop of the running fetch is over
FetchOver ==
    \/ variant = "yme" /\ pc \in {"batch", "done"} /\ bi >= Len(all_ids)
    \/ variant \in {"vdata", "old"} /\ pc = "fbatch" /\ bi >= Len(all_ids)

InFetch == pc \in {"batch", "fbatch"} \/ (variant = "yme" /\ pc = "done")

\* the offsets of the batches of the running fetch
Offsets == {o \in 0..Len(all_ids) : o < Len(all_ids) /\ o % batch_size = 0}

BatchAt(o) == Slice(all_ids, o, o + batch_size)

\* where the history of the running fetch starts
FetchStart ==
    LET before == {j \in 1..Len(log) :
                      \/ log[j].ev \in {"build", "return"}
                      \/ log[j].ev = "call" /\ log[j].kind # "batch"}
    IN  IF before = {} THEN 1 ELSE 1 + CHOOSE j \in before : \A m \in before : m <= j

\* the attempts the running fetch made on the batch at offset o
BatchCalls(o) ==
    {i \in CallIdx : i >= FetchStart /\ log[i].kind = "batch" /\ log[i].arg = BatchAt(o)}

\* the batch at offset o is behind the loop, and every attempt on it failed
FailedBatch(o) ==
    /\ o < bi
    /\ BatchCalls(o) # {}
    /\ \A i \in BatchCalls(o) : log[i].res # "ok"

\* the identifiers of the batch at offset o that are in no other batch
OwnIds(o) == {v \in Range(BatchAt(o)) : \A p \in Offsets \ {o} : v \notin Range(BatchAt(p))}

(* C8: when a batch fails on every one of its attempts, the output holds no  *)
(* record of that batch, and every later batch of the fetch is still         *)
(* requested and its records are in the output.                              *)
C8_FailedBatchSkipped ==
    /\ InFetch =>
        \A o \in Offsets :
            /\ FailedBatch(o) => OwnIds(o) \cap Range(out) = {}
            /\ (o < bi /\ ~FailedBatch(o)) => Range(BatchAt(o)) \subseteq Range(out)
    /\ FetchOver => \A o \in Offsets : BatchCalls(o) # {}
    /\ (pc = "crashed" /\ Len(log) > 0 /\ Last.ev = "call" /\ Last.kind = "batch")
        => bi + batch_size >= Len(all_ids)

-----------------------------------------------------------------------------
BatchIdx == {i \in CallIdx : log[i].kind = "batch"}

\* the attempt on the same batch that precedes the attempt at i (0: none)
PrevAttempt(i) ==
    LET before == {m \in Attempts(i) : m < i}
    IN  IF before = {} THEN 0 ELSE CHOOSE m \in before : \A x \in before : x <= m

\* the batch whose attempt at i failed is waiting for its next attempt
Pending(i) ==
    /\ NextCall(i) = 0
    /\ pc = "fbatch" /\ bi < Len(all_ids) /\ BatchAt(bi) = log[i].arg
    /\ retries < retry_budget

-----------------------------------------------------------------------------
(* C10: no API-call failure other than pool exhaustion ends the driver in an *)
(* uncaught error: the failure becomes a skip or a retry and the run goes on.*)
C10_NoUncaughtApiFailure ==
    (pc = "crashed" /\ Len(log) > 0)
    => /\ ~(Last.ev = "call" /\ Last.res # "ok")
       /\ ~(Last.ev = "return" /\ Last.res = "None")

-----------------------------------------------------------------------------
\* the identifiers whose records the run has fetched (successful batch calls)
Fetched == UNION {Range(log[i].arg) : i \in {j \in CallIdx : log[j].kind = "batch" /\ log[j].res = "ok"}}

(* C11: when a run terminates on pool exhaustion no progress is lost: the    *)
(* durable store never loses a row it held, and every record the run had    *)
(* fetched successfully before the exhaustion is in the durable store.       *)
C11_ExhaustionKeepsProgress ==
    /\ [](pc = "exhausted" => Fetched \subseteq KnownIds(files))
    /\ [][KnownIds(files) \subseteq KnownIds(files')]_vars

-----------------------------------------------------------------------------
\* the positions of the history where pool exhaustion was signaled
ExhaustionIdx == {i \in 1..Len(log) : log[i].ev = "rotate" /\ log[i].res = "exhausted"}

(* C12: whenever pool exhaustion is signaled, an entry for it is appended to *)
(* the persistent error log before the run terminates.  (The claim is about  *)
(* the two scripts it cites, YouTubeMetadataExtractor.py and vdata.py.)      *)
C12_ExhaustionLogged ==
    \A i \in ExhaustionIdx :
        (variant \in {"yme", "vdata"} /\ RunOver) => \E j \in 1..Len(log) : j >= i - 1 /\ log[j].ev = "errlog"

-----------------------------------------------------------------------------
(* C13: after a credential has answered quota-exceeded, the next attempt of  *)
(* the same call is issued with a different credential, and no later call of *)
(* the run is issued with a credential that has already answered             *)
(* quota-exceeded in that run.                                               *)
C13_NoSpentCredentialReused ==
    \A i, j \in CallIdx :
        (i < j /\ log[i].res = "quota") => log[j].key # log[i].key

-----------------------------------------------------------------------------
(* C14: whenever an API call is issued, the session that issues it is bound  *)
(* to the credential at the current cursor position, never to a credential   *)
(* the cursor has moved away from.                                           *)
C14_SessionBoundToCursor ==
    [][\A k \in 1..Len(NewEntries) :
          NewEntries[k].ev = "call" => NewEntries[k].key = cursor]_vars

\* a call was issued after a rotation, through a session rebuilt for the new key
C14_Witness ==
    /\ Len(log) >= 3 /\ cursor >= 1
    /\ \E i \in CallIdx :
        /\ i >= 3 /\ log[i].key = cursor
        /\ log[i - 1].ev = "rotate" /\ log[i - 1].res = "ok"
        /\ log[i - 2].ev = "call" /\ log[i - 2].key = cursor - 1

-----------------------------------------------------------------------------
\* the position of the first row of `rows' that carries the Video ID id
FirstPos(rows, id) ==
    CHOOSE i \in 1..Len(rows) : rows[i].id = id /\ \A j \in 1..(i - 1) : rows[j].id # id

\* `res' holds, for every Video ID of `rows', exactly the first row of `rows'
\* that carries it, and these rows stand in the order they have in `rows'
KeepsFirst(rows, res) ==
    /\ \A i \in 1..Len(rows) :
        Cardinality({k \in 1..Len(res) : res[k].id = rows[i].id}) = 1
    /\ \A k \in 1..Len(res) :
        \E i \in 1..Len(rows) : rows[i].id = res[k].id /\ res[k] = rows[FirstPos(rows, res[k].id)]
    /\ \A k, l \in 1..Len(res) :
        k < l => FirstPos(rows, res[k].id) < FirstPos(rows, res[l].id)

(* C15: consolidation keeps, for every VideoID of its input, exactly the     *)
(* first row that carries it, in the input's relative order, and it is      *)
(* idempotent: consolidating the consolidated rows gives the same rows.      *)
(* Checked on every step of deduplicate_metadata (metadata_file to           *)
(* final_file) and of deduplicate_dataframe in deduplication.main.           *)
C15_ConsolidationKeepsFirst ==
    [][/\ (final' # final) =>
            /\ final'.lines[1] = Header
            /\ KeepsFirst(DataRows(csv.lines), Tail(final'.lines))
            /\ deduplicate_dataframe(Tail(final'.lines)) = Tail(final'.lines)
       /\ (dpc = "loaded" /\ dpc' = "deduped") =>
            /\ KeepsFirst(df, df')
            /\ deduplicate_dataframe(df') = df'
       /\ (dpc = "deduped" /\ dpc' = "saved") =>
            \E f \in temp' : f.lines = <<Header>> \o df
      ]_vars

\* rows with the Video IDs [A, A, B], the two A's different records, have been
\* consolidated to the first A and B
C15_Witness ==
    /\ layout = "dir" /\ dpc = "deduped" /\ Len(df) = 2
    /\ \E order \in Perms(meta) :
        LET rows == Concat([k \in 1..Len(order) |-> DataRows(order[k].lines)])
        IN  /\ Len(rows) = 3
            /\ rows[1].id = rows[2].id /\ rows[1] # rows[2] /\ rows[3].id # rows[1].id
            /\ df = <<rows[1], rows[3]>>

-----------------------------------------------------------------------------
(* C16: after any sequence of append(records) calls, with any number of      *)
(* records per call including zero, the durable store exists and consists of *)
(* exactly one header row, at the top, followed by the appended rows in      *)
(* append order.                                                             *)
C16_OneHeaderThenRows ==
    (layout = "file" /\ nw > 0)
    => /\ csv.exists
       /\ csv.lines = <<Header>> \o appended

-----------------------------------------------------------------------------
\* the identifiers of the batches that were given up, every attempt on them
\* having failed, and that no call has fetched
SkippedIds ==
    UNION {Range(log[i].arg) : i \in {j \in BatchIdx : log[j].res # "ok"}} \ Fetched

\* a run of vdata.process_url is over, and none is running
BetweenRuns == variant = "vdata" /\ pc = "url"

(* C17: an identifier whose batch was skipped in one run is not in the       *)
(* known-ID index the next run rebuilds from durable storage, so a next run  *)
(* that lists it requests it again; an identifier whose record was persisted *)
(* is in that index and is not requested again.                              *)
C17_SkippedRefetchedSavedKept ==
    /\ BetweenRuns =>
        /\ SkippedIds \cap KnownIds(files) = {}
        /\ Fetched \subseteq KnownIds(files)
    /\ (variant = "vdata" /\ pc = "fbuild") =>
        /\ existing = KnownIds(files)
        /\ all_ids = SelectSeq(video_ids, LAMBDA v : v \notin existing)

-----------------------------------------------------------------------------
\* the batches of the running fetch that hold the identifier v
BatchesOf(v) == {o \in Offsets : v \in Range(BatchAt(o))}

(* C18: the batches of one incremental fetch partition the unseen            *)
(* identifiers: every unseen identifier is in exactly one batch, no batch    *)
(* holds more than 50 identifiers, every batch but the last holds exactly    *)
(* 50, and each attempt on a batch is one detail-fetch call for that batch.  *)
C18_BatchesPartitionUnseen ==
    InFetch =>
        /\ \A v \in Range(all_ids) : v \notin existing /\ Cardinality(BatchesOf(v)) = 1
        /\ \A o \in Offsets :
            /\ Len(BatchAt(o)) <= batch_size
            /\ (o + batch_size < Len(all_ids)) => Len(BatchAt(o)) = batch_size
        /\ \A i \in BatchIdx : i >= FetchStart => \E o \in Offsets : log[i].arg = BatchAt(o)

-----------------------------------------------------------------------------
\* the URL forms that match no pattern of the classifier of a script
NoPattern ==
    CASE variant = "yme"   -> {"junk", "shorts"}
      [] variant = "vdata" -> {"junk", "shorts", "youtu.be"}
      [] OTHER             -> {"junk"}

\* the positions of the history after which a URL is known to be unresolvable:
\* the classifier found no pattern, or the search for the handle gave nothing
UnresolvedIdx ==
    {i \in 1..Len(log) :
        \/ log[i].ev = "url" /\ log[i].kind \in NoPattern
        \/ /\ log[i].ev = "call" /\ log[i].kind = "resolve"
           /\ (log[i].res # "ok" \/ ServerHandle(log[i].target) = "")}

\* the entry is the detail fetch that YouTubeMetadataExtractor starts when the
\* whole input list has been classified
FetchAfterList(e) == variant = "yme" /\ urls = <<>> /\ e.ev = "call" /\ e.kind = "batch"

(* C19: a URL that cannot be resolved is skipped: no listing call and no     *)
(* detail-fetch call is issued for it, no error is raised, nothing is taken  *)
(* from it, and the driver goes on with the next URL of the input list.      *)
C19_UnresolvedUrlSkipped ==
    /\ [](\A i \in UnresolvedIdx :
            /\ i < Len(log) =>
                \/ log[i + 1].ev = "url"
                \/ FetchAfterList(log[i + 1]) /\ \A j \in (i + 1)..Len(log) : log[j].ev # "url"
            /\ i = Len(log) =>
                /\ pc \notin {"crashed", "exhausted"}
                /\ urls # <<>> => pc \in {"url", "check"}
                /\ pc = "check" => video_ids = <<>>)
    /\ [][\A k \in 1..Len(NewEntries) :
            (NewEntries[k].ev = "url" /\ NewEntries[k].kind \in NoPattern)
            => /\ urls' = Tail(urls)
               /\ all_ids' = all_ids
               /\ video_ids' = <<>>]_vars

\* an unmatched URL and a handle that no channel answers to were skipped, and
\* the listing of a later URL of the list was requested
C19_Witness ==
    \E i, j, k \in 1..Len(log) :
        /\ i < j /\ j < k
        /\ log[i].ev = "url" /\ log[i].kind = "junk"
        /\ log[j].ev = "call" /\ log[j].kind = "resolve" /\ log[j].res = "ok"
        /\ ServerHandle(log[j].target) = ""
        /\ log[k].ev = "call" /\ log[k].kind \in ListingCalls

-----------------------------------------------------------------------------
\* the calls of a traversal: uploads lookup and listing pages
TraversalCalls == {"chan", "page", "search"}

\* the positions of the calls issued for the URL taken at position i
CallsFor(i) ==
    {j \in CallIdx : j > i /\ \A m \in (i + 1)..j : log[m].ev # "url"}

(* C20: for every URL of the form @name, a resolve-handle search call is     *)
(* issued before any traversal call for that URL, and the traversal uses the *)
(* channel identifier the resolution returned, never the handle name.        *)
C20_HandleResolvedFirst ==
    \A i \in 1..Len(log) :
        (log[i].ev = "url" /\ log[i].kind = "handle") =>
            \A j \in CallsFor(i) :
                log[j].kind \in TraversalCalls =>
                    /\ log[j].target # log[i].target
                    /\ \E r \in CallsFor(i) :
                        /\ r < j
                        /\ log[r].kind = "resolve" /\ log[r].target = log[i].target
                        /\ log[r].res = "ok"
                        /\ log[j].target \in {ServerHandle(log[i].target),
                                              ServerUploads(ServerHandle(log[i].target))}

-----------------------------------------------------------------------------
\* the positions of the history where a URL was classified as a Channel reference
ChannelUrlIdx == {i \in 1..Len(log) : log[i].ev = "url" /\ log[i].res \in {"channel", "channel_id"}}

(* C21: for a Channel reference the traversal first issues a call that       *)
(* resolves the channel's uploads collection, and only then pages through    *)
(* that collection with the paging protocol of a Playlist; when the channel  *)
(* has no uploads collection no page is requested and the result is empty.   *)
(* (The claim is about the two scripts it cites, YouTubeMetadataExtractor.py *)
(* and vdata.py.)                                                            *)
C21_ChannelUploadsThenPages ==
    \A i \in ChannelUrlIdx :
        variant \in {"yme", "vdata"} =>
            \A j \in CallsFor(i) :
                /\ log[j].kind \in ListingCalls =>
                    /\ log[j].kind = "page"
                    /\ ServerUploads(log[i].target) # ""
                    /\ log[j].target = ServerUploads(log[i].target)
                    /\ \E r \in CallsFor(i) :
                        /\ r < j
                        /\ log[r].kind = "chan" /\ log[r].target = log[i].target
                        /\ log[r].res = "ok"
                /\ (log[j].kind = "chan" /\ log[j].res = "ok"
                        /\ ServerUploads(log[i].target) = "") =>
                    /\ j < Len(log)
                    /\ log[j + 1] = Ret(log[i].target, <<>>, "list")

-----------------------------------------------------------------------------
\* the place of a type in the order video, playlist, channel, handle
Rank(type) ==
    CASE type = "video"                     -> 1
      [] type = "playlist"                  -> 2
      [] type \in {"channel", "channel_id"} -> 3
      [] OTHER                              -> 4

\* the patterns of parse_url that match the URL: the test of a branch holds and
\* the helper of the branch finds an identifier
PatternsYme(url) ==
    {t \in {"video", "playlist", "channel"} :
        CASE t = "video"    -> /\ In("youtube.com/watch", url) \/ In("youtu.be", url)
                               /\ parse_video_url(url) # NotFound
          [] t = "playlist" -> /\ In("youtube.com/playlist", url)
                               /\ parse_playlist_url(url) # NotFound
          [] OTHER          -> /\ In("youtube.com/channel", url) \/ In("@", url)
                               /\ parse_channel_url(url) # NotFound}

\* the patterns of vdata.extract_identifier that match the URL
PatternsVdata(url) ==
    {t \in {"video", "playlist", "channel_id", "handle"} :
        CASE t = "video"      -> match_video(url) # <<>>
          [] t = "playlist"   -> match_playlist(url) # <<>>
          [] t = "channel_id" -> match_channel(url) # <<>>
          [] OTHER            -> match_handle(url) # <<>>}

\* the patterns of vdata_old.extract_identifier that match the URL
PatternsOld(url) ==
    {t \in {"video", "playlist", "channel_id", "handle"} :
        CASE t = "video"      -> In("watch?v=", url) \/ In("youtu.be/", url) \/ In("shorts/", url)
          [] t = "playlist"   -> In("playlist?list=", url)
          [] t = "channel_id" -> In("/channel/", url)
          [] OTHER            -> In("@", url)}

\* of several matching patterns, the first in the order decides the type
FirstGoverns(matching, type) ==
    Cardinality(matching) >= 2 =>
        type = CHOOSE t \in matching : \A u \in matching : Rank(t) <= Rank(u)

(* C22: when a URL matches more than one pattern of a classifier, the result *)
(* is decided by the first matching pattern in the order video, playlist,    *)
(* channel, handle.                                                          *)
C22_FirstPatternGoverns ==
    /\ fn = "parse_url" => FirstGoverns(PatternsYme(given.val), ret.type)
    /\ fn = "extract_identifier" => FirstGoverns(PatternsVdata(given.val), ret.type)
    /\ fn = "extract_identifier_old" => FirstGoverns(PatternsOld(given.val), ret.type)

-----------------------------------------------------------------------------
\* the identifiers of the URLs under test
Ids == {"abc123"}

\* the patterns of the classifier that was applied that match the URL
Patterns(url) ==
    CASE fn = "parse_url"          -> PatternsYme(url)
      [] fn = "extract_identifier" -> PatternsVdata(url)
      [] OTHER                     -> PatternsOld(url)

Classified == fn \in {"parse_url", "extract_identifier", "extract_identifier_old"}

(* C23: in every ingestion variant the classifier maps each of the video URL *)
(* forms watch?v=ID, youtu.be/ID and /shorts/ID to Video(ID) with exactly    *)
(* that ID, maps playlist?list=ID to Playlist(ID), and maps a string that    *)
(* matches no pattern to None.                                               *)
C23_ClassifiesUrlForms ==
    Classified =>
        /\ \A id \in Ids :
            /\ given.val = "https://www.youtube.com/watch?v=" \o id => ret = Found("video", id)
            /\ given.val = "https://youtu.be/" \o id => ret = Found("video", id)
            /\ given.val = "https://www.youtube.com/shorts/" \o id => ret = Found("video", id)
            /\ given.val = "https://www.youtube.com/playlist?list=" \o id
                => ret = Found("playlist", id)
        /\ Patterns(given.val) = {} => ret = NotFound

-----------------------------------------------------------------------------
\* the rows of digits that stand in the text
DigitTexts(d) ==
    {SubSeq(d, i, j) : i \in 1..Len(d), j \in 1..Len(d)}
        \cap {t \in {SubSeq(d, i, j) : i \in 1..Len(d), j \in 1..Len(d)} :
                 Len(t) >= 1 /\ \A k \in 1..Len(t) : At(t, k) \in Digits}

\* a component of a duration: its digits and its unit, or nothing when omitted
Part(digits, unit) == IF digits = "" THEN "" ELSE digits \o unit

\* the ways to read the text as PT#H#M#S with any of H, M, S omitted
Readings(d) ==
    {r \in [h : DigitTexts(d) \cup {""}, m : DigitTexts(d) \cup {""},
            s : DigitTexts(d) \cup {""}] :
        d = "PT" \o Part(r.h, "H") \o Part(r.m, "M") \o Part(r.s, "S")}

WellFormed(d) == Readings(d) # {}

(* C24: for every duration string that is empty or is not a well-formed      *)
(* PT#H#M#S duration (wrong prefix, components out of order, trailing or     *)
(* embedded garbage), parse_duration returns 0.                              *)
C24_MalformedDurationIsZero ==
    (fn = "parse_duration" /\ ~WellFormed(given.val)) => ret = 0

(* C25: for every well-formed duration PT#H#M#S with any subset of the H, M  *)
(* and S components omitted, parse_duration returns                          *)
(* hours*3600 + minutes*60 + seconds, an omitted component counting as 0.    *)
C25_WellFormedDurationInSeconds ==
    fn = "parse_duration" =>
        \A r \in Readings(given.val) : ret = int(r.h) * 3600 + int(r.m) * 60 + int(r.s)

\* PT1H2M3S has been parsed to 3723
C25_Witness ==
    /\ fn = "parse_duration" /\ given.val = "PT1H2M3S" /\ ret = 3723
    /\ Readings(given.val) = {[h |-> "1", m |-> "2", s |-> "3"]}

-----------------------------------------------------------------------------
(* C26: for every attempt number a >= 0 the backoff wait is min(60, 2^a)     *)
(* seconds: it never exceeds the cap, it never decreases as a grows, and     *)
(* backing off changes neither the cursor nor the session.                   *)
C26_BackoffCappedMonotone ==
    [][fn' = "exponential_backoff" =>
          /\ ret' = (IF 2 ^ given.val < 60 THEN 2 ^ given.val ELSE 60)
          /\ ret' <= 60
          /\ \A b \in 0..given.val : exponential_backoff(b) <= ret'
          /\ cursor' = cursor /\ session' = session]_vars

\* the wait of attempt 6 is the cap, with the cursor on the second credential
C26_Witness ==
    /\ fn = "exponential_backoff" /\ given.val = 6 /\ ret = 60
    /\ cursor = 1 /\ session = 1

-----------------------------------------------------------------------------
BuildIdx == {i \in 1..Len(log) : log[i].ev = "build"}

\* the build attempts of the call of build_youtube_service that made the
\* attempt at i, up to i: between them stand only its log_error and its
\* switch_api_key
BuildAttempts(i) ==
    {j \in BuildIdx : j <= i /\ \A m \in j..i : log[m].ev \in {"build", "errlog", "rotate"}}

(* C27: build_youtube_service always terminates: when building a session     *)
(* fails for a credential it moves to the next one, and after at most N      *)
(* build attempts (N = pool size) it either returns a session or signals     *)
(* exhaustion; it never goes on when every credential has failed to build.   *)
C27_BuildBoundedByPool ==
    \A i \in BuildIdx :
        /\ Cardinality(BuildAttempts(i)) <= N
        /\ \A j \in BuildAttempts(i) : j < i => log[j].res = "fail"
        /\ (log[i].res = "fail" /\ Cardinality(BuildAttempts(i)) < N /\ i < Len(log))
            => \E r \in (i + 1)..Len(log) :
                /\ log[r].ev = "rotate" /\ log[r].arg = <<log[i].key, (log[i].key + 1) % N>>
                /\ \A m \in (i + 1)..(r - 1) : log[m].ev = "errlog"

-----------------------------------------------------------------------------
\* the step got the response `res' to an API call
Answered(res) == \E k \in 1..Len(NewEntries) : NewEntries[k].ev = "call" /\ NewEntries[k].res = res

\* a step moves the cursor only when it got a quota-exceeded response, and a
\* step that got another failure leaves cursor and session alone
OnlyQuotaMovesCursor ==
    /\ (Rotated \/ cursor' # cursor) => Answered("quota")
    /\ (Answered("http") \/ Answered("exc") \/ Answered("bad"))
        => /\ ~Rotated
           /\ cursor' = cursor
           /\ session' = session

(* C28: the cursor advances only in response to a quota-exceeded response:   *)
(* an API failure of any other kind (network error, 5xx, malformed response, *)
(* missing field) leaves the cursor and the credential in use unchanged.     *)
(* (The claim is about the two scripts it cites, YouTubeMetadataExtractor.py *)
(* and vdata.py.)                                                            *)
C28_OnlyQuotaAdvancesCursor ==
    [][(variant \in {"yme", "vdata"}) => OnlyQuotaMovesCursor]_vars

-----------------------------------------------------------------------------
\* the rotations onto another credential made so far in the run
RotationsOfRun == {i \in 1..Len(log) : log[i].ev = "rotate" /\ log[i].res = "ok"}

\* at most N-1 rotations, no call with a credential the cursor has left, and
\* the run has not ended in the `retries > len(api_keys)' exit
NoWayBack ==
    /\ Cardinality(RotationsOfRun) <= N - 1
    /\ \A i, j \in CallIdx : i < j => log[i].key <= log[j].key
    /\ \A i \in CallIdx : log[i].key <= cursor \/ pc = "exhausted"
    /\ pc # "exhausted_retries"

(* C29, as stated: in YouTubeMetadataExtractor the cursor never decreases    *)
(* during a run: across all traversals and batch fetches of one run at most  *)
(* N-1 rotations happen in total, a credential the cursor has left is never  *)
(* selected again, and the `retries > len(api_keys)' exit of                 *)
(* fetch_videos_from_playlist is never the one that ends the run.            *)
C29_Original ==
    /\ [][(variant = "yme") => cursor' >= cursor]_vars
    /\ [](variant = "yme" => NoWayBack)

(* C29, amended: in YouTubeMetadataExtractor the cursor never decreases      *)
(* while the run goes on; the one step that lowers it is the switch_api_key  *)
(* that wraps it to 0, and that step ends the run.  Across all traversals    *)
(* and batch fetches of one run at most N-1 rotations onto another           *)
(* credential happen, no call is issued with a credential the cursor has     *)
(* left, and the `retries > len(api_keys)' exit is never the one that ends   *)
(* the run.                                                                  *)
C29_CursorRisesUntilExhaustion ==
    /\ [][(variant = "yme") =>
            /\ pc # "exhausted"
            /\ \/ cursor' >= cursor /\ pc' # "exhausted"
               \/ cursor = N - 1 /\ cursor' = 0 /\ pc' = "exhausted"]_vars
    /\ [](variant = "yme" => NoWayBack)

\* a pool of three keys: one rotation was made by a traversal and one by the
\* batch fetch, and the fetch goes on with the third key
C29_Witness ==
    /\ variant = "yme" /\ N = 3 /\ cursor = 2 /\ pc = "batch"
    /\ Cardinality(RotationsOfRun) = 2
    /\ \E i, j \in CallIdx :
        /\ log[i].kind = "page" /\ log[i].res = "quota" /\ log[i].key = 0
        /\ log[j].kind = "batch" /\ log[j].res = "quota" /\ log[j].key = 1

-----------------------------------------------------------------------------
\* how often the identifier v stands in the sequence
Count(seq, v) == Cardinality({k \in 1..Len(seq) : seq[k] = v})

\* the identifiers of the batches the running fetch has fetched successfully
FetchedByFetch ==
    UNION {Range(log[i].arg) :
             i \in {j \in BatchIdx : j >= FetchStart /\ log[j].res = "ok"}}

(* C30: in get_video_metadata with retries, the output holds at most one     *)
(* record per item of a batch: records appended during an attempt that then  *)
(* fails are not left in the output, and a retried batch does not add the    *)
(* same item's record a second time.                                         *)
C30_OneRecordPerItem ==
    (variant = "vdata" /\ pc = "fbatch") =>
        /\ \A v \in Range(out) : Count(out, v) <= Count(all_ids, v)
        /\ Range(out) \subseteq FetchedByFetch

-----------------------------------------------------------------------------
\* the Video IDs that have a row in some file of the set
IdsIn(fs) == {l.id : l \in {m \in UNION {Range(f.lines) : f \in fs} : m.kind = "row"}}

\* the Video IDs of the rows of a DataFrame
IdsOf(rows) == {r.id : r \in Range(rows)}

\* the file that save_to_csv of the running deduplication.main writes
Deduplicated == FileOf("deduplicated", np, <<Header>> \o df)

\* every Video ID the running pass loaded has a row in some file on disk
LoadedOnDisk == dpc # "idle" => IdsOf(df) \subseteq IdsIn(meta \cup temp \cup archive)

\* the pass loads every Video ID of the directory; the originals are archived
\* only when the deduplicated file stands in the temporary directory
PassInOrder ==
    /\ (dpc = "idle" /\ dpc' = "loaded") => IdsOf(df') = IdsIn(meta)
    /\ (archive' # archive) =>
        /\ dpc = "saved"
        /\ Deduplicated \in temp
        /\ IdsIn(meta) \cap IdsOf(df) \subseteq IdsIn({Deduplicated})

\* main of deduplication.py returns: after its last step, or at once when it
\* found no row
PassReturns ==
    \/ np' = np + 1 /\ dpc' = "idle"
    \/ dpc = "moved" /\ dpc' = "idle"

\* C31 as stated: ... and when the pass completes the metadata directory holds
\* exactly one store file, the deduplicated one.
C31_Original ==
    /\ []LoadedOnDisk
    /\ [][/\ PassInOrder
          /\ (layout = "dir" /\ PassReturns) => meta' = {Deduplicated}]_vars

(* C31: at every step of a consolidation pass that found rows, every VideoID *)
(* that was in the metadata directory at the start has a row in some file on *)
(* disk, and the originals are moved to the archive only after the           *)
(* deduplicated file has been written; when the pass has gone through all    *)
(* its steps, the metadata directory holds the deduplicated file, and every  *)
(* other file in it is a partial store written after the originals were      *)
(* archived.  A pass that finds no row returns and leaves every file alone.  *)
C31_PassKeepsLoadedOnDisk ==
    /\ []LoadedOnDisk
    /\ [][/\ PassInOrder
          /\ (dpc = "moved" /\ dpc' = "idle") =>
                /\ Deduplicated \in meta'
                /\ \A f \in meta' \ {Deduplicated} :
                        f.kind = "metadata" /\ f \notin archive'
          /\ (layout = "dir" /\ np' = np + 1 /\ dpc' = "idle") =>
                /\ IdsIn(meta) = {}
                /\ <<meta', temp', archive'>> = <<meta, temp, archive>>]_vars

\* a pass over two partial stores that share a Video ID has returned: the
\* directory holds the deduplicated file alone, the originals are archived
C31_Witness ==
    /\ layout = "dir" /\ dpc = "idle" /\ np = 1
    /\ Cardinality(archive) = 2
    /\ IdsIn(archive) = {1, 2}
    /\ \E f \in meta :
        /\ meta = {f}
        /\ f.kind = "deduplicated"
        /\ Len(f.lines) = 3
    /\ temp = {}

-----------------------------------------------------------------------------
\* the partial stores that are no longer in the metadata directory: a file
\* leaves the directory only by being moved to the archive
ArchivedPartials == {f \in archive : f.kind = "metadata"}

(* C32: no record of a partial store that an ingestion run writes into the   *)
(* metadata directory while a consolidation pass is running is lost from the *)
(* live store: once the write and the pass have finished, every VideoID of   *)
(* the partial store has a row in a file of the metadata directory, be it    *)
(* the canonical store or the partial store itself.  A partial store that is *)
(* still in the directory satisfies this by itself, and one that was written *)
(* between two passes is loaded by the next pass, so the statement is about  *)
(* the partial stores that a pass has archived.                              *)
C32_ConcurrentPartialKept ==
    (layout = "dir" /\ dpc = "idle") =>
        \A f \in ArchivedPartials : IdsIn({f}) \subseteq IdsIn(meta)

=============================================================================
